---- MODULE Spec2Model ----
(***************************************************************************)
(* Account authentication and lockout of StudyQ: AuthService (login,       *)
(* changePassword, resetUserPassword, logout), the admin operations of     *)
(* UserService that write the same rows, and the db helpers they call.     *)
(*                                                                         *)
(* Every service method is one action: the account store answers each call *)
(* and the method runs from its first line to its return.  Time is in      *)
(* milliseconds, as Date.now() gives it.  Columns of a users row that no   *)
(* method of the services reads or writes after creation (email,           *)
(* whatsapp_number, academic_year, current_semester, created_at) are left  *)
(* out of the row.                                                         *)
(***************************************************************************)
EXTENDS Integers, Sequences, FiniteSets, TLC

\* ------------------------------------------------------------------ bounds
\* Number of lock durations the clock may run through.
MaxLockRounds == 1
\* Largest failed_login_attempts from which a login is still taken.
MaxFailed == 7

\* --------------------------------------------------------------- constants
\* failedAttempts >= 5
LockThreshold == 5
\* Date.now() + 15 * 60 * 1000
LockMs == 15 * 60 * 1000
\* exp: Date.now() + (2 * 60 * 60 * 1000)
TokenMs == 2 * 60 * 60 * 1000
\* const saltRounds = 12
saltRounds == 12

MaxNow == MaxLockRounds * LockMs

\* Rows of the users table, an identifier no row has, the names rows carry
\* and a login handle no row carries.
UserIds == {"u1"}
AbsentId == "u0"
\* A second account, stored only where an administrator creates it.
SecondId == "u2"
AccountIds == UserIds \cup {SecondId}
DefaultEmail == "a@studyq.test"
Emails == {DefaultEmail, "b@studyq.test"}
Names == {"alice"}
UnknownHandle == "mallory"
Handles == Names \cup {UnknownHandle}
\* Callers whose logins may overlap.
Procs == {"p1", "p2"}
Passwords == {"pwA", "pwB"}

\* ------------------------------------------------------------ null values
NullUser == [null |-> TRUE]
NullTime == [null |-> TRUE]
NullToken == [null |-> TRUE]
NullId == "null"

\* ---------------------------------------------------------------- messages
ErrInvalidCredentials == "Invalid username or password"
ErrAccountInactive == "Account is inactive. Please contact administrator."
ErrAccountLocked == "Account is temporarily locked due to too many failed attempts"
ErrUserNotFound == "User not found"
ErrCurrentPassword == "Current password is incorrect"
ErrResetFailed == "Failed to reset password"
ErrLoginSystem == "Login failed due to system error"
ErrChangeFailed == "Failed to change password"
\* The text of an error thrown by the Supabase client.
StoreErrorText == "FetchError: request to users failed"
ErrUserIdExists == "User ID already exists"
ErrEmailExists == "Email address already exists"
ErrCreateFailed == "Failed to create user"
ErrUpdateFailed == "Failed to update user"

\* users        the users table: user_id -> row
\* now          Date.now()
\* currentUser  AuthService.currentUser
\* authToken    AuthService.authToken
\* last         the call made in the last step: its arguments, the table
\*              before it, the time, the value returned and the calls of
\*              logAuditEvent
\* streak       per account, how many logins in a row have failed with a
\*              wrong password (counted up to the threshold) since the last
\*              successful login, password reset or administrator update
\* fresh        per account, whether that run of logins began on a row with
\*              failed_login_attempts = 0 and no lock
\* inflight     per caller, the login it has under way: its arguments and the
\*              row its db.getUserByUsername returned
\* guesses      per account, under overlapping logins: how many logins have
\*              verified a wrong password while the stored row had no
\*              locked_until, since the last successful login (counted up to
\*              LockThreshold + 1)
\* client       the browser side: localStorage (auth_user, auth_token), the
\*              state of the AuthContext reducer, and the changePassword of
\*              the context that is awaiting the service, if any
VARIABLES users, now, currentUser, authToken, last, streak, fresh, inflight,
          guesses, client

vars == <<users, now, currentUser, authToken, last, streak, fresh, inflight,
          guesses, client>>

\* ------------------------------------------------------- library functions
\* Date.prototype.toISOString and new Date(string): millisecond precision.
toISOString(ms) == [iso |-> ms]
DateParse(s) == s.iso

\* Mutant: the comparison accepts every password.
verifyPassword_Always(password, hash) == TRUE

\* bcrypt.hash(password, saltRounds) and bcrypt.compare(password, hash)
hashPassword(password) == [cost |-> saltRounds, digest |-> password]
verifyPassword(password, hash) == hash.digest = password

\* btoa(JSON.stringify(payload))
generateToken(user, t) ==
    [b64 |-> [user_id |-> user.user_id, role |-> user.role,
              iat |-> t, exp |-> t + TokenMs]]

\* ------------------------------------------------------------- db helpers
\* .eq('name', username).single(): one row, or null when the rows matching
\* are none or several (PGRST116).
getUserByUsername(rows, username) ==
    LET match == {u \in DOMAIN rows : rows[u].name = username}
    IN IF Cardinality(match) = 1
       THEN rows[CHOOSE u \in match : TRUE]
       ELSE NullUser

\* .eq('user_id', userId).single()
getUserById(rows, userId) ==
    IF userId \in DOMAIN rows THEN rows[userId] ELSE NullUser

\* .update(updates).eq('user_id', userId).select().single() throws when no
\* row has the identifier.
updateThrows(rows, userId) == userId \notin DOMAIN rows

updateUser(rows, userId, updates) ==
    [rows EXCEPT ![userId] =
        [f \in DOMAIN @ |-> IF f \in DOMAIN updates THEN updates[f] ELSE @[f]]]

\* The AuthUser object the services build from a row.
AuthUserOf(user) ==
    [user_id |-> user.user_id,
     name |-> user.name,
     email |-> user.email,
     role |-> user.role,
     is_active |-> user.is_active,
     force_password_change |-> user.force_password_change,
     last_login |-> user.last_login]

\* One call of logAuditEvent.
AuditEvent(userId, action) == [user_id |-> userId, action |-> action]

\* Mutant: the is_active check is missing.
isInactive_Never(user) == FALSE

\* if (!user.is_active)
isInactive(user) == ~user.is_active

\* Mutant: the comparison of locked_until with the current time is reversed.
isLocked_Reversed(user, t) ==
    user.locked_until # NullTime /\ DateParse(user.locked_until) < t

\* Mutant: the account is still locked at the instant locked_until.
isLocked_Inclusive(user, t) ==
    user.locked_until # NullTime /\ DateParse(user.locked_until) >= t

\* user.locked_until && new Date(user.locked_until) > new Date()
isLocked(user, t) ==
    user.locked_until # NullTime /\ DateParse(user.locked_until) > t

\* The value login returns for a handle no row is found for.
UnknownUserResult == [success |-> FALSE, error |-> ErrInvalidCredentials]

\* Mutant: a wrong password is reported in words of its own.
WrongPasswordResult_Distinct == [success |-> FALSE, error |-> "Incorrect password"]

\* The value login returns when the password does not verify.
WrongPasswordResult == [success |-> FALSE, error |-> ErrInvalidCredentials]

\* Mutant: the lock is set one failure late (failedAttempts > 5).
FailedLoginUpdates_LateLock(user, t) ==
    LET failedAttempts == user.failed_login_attempts + 1
    IN IF failedAttempts > LockThreshold
       THEN [failed_login_attempts |-> failedAttempts,
             locked_until |-> toISOString(t + LockMs)]
       ELSE [failed_login_attempts |-> failedAttempts]

\* Mutant: the lock is set one failure early (failedAttempts >= 4).
FailedLoginUpdates_EarlyLock(user, t) ==
    LET failedAttempts == user.failed_login_attempts + 1
    IN IF failedAttempts >= LockThreshold - 1
       THEN [failed_login_attempts |-> failedAttempts,
             locked_until |-> toISOString(t + LockMs)]
       ELSE [failed_login_attempts |-> failedAttempts]

\* Mutant: only the attempt that reaches the threshold sets the lock.
FailedLoginUpdates_LockOnlyAtThreshold(user, t) ==
    LET failedAttempts == user.failed_login_attempts + 1
    IN IF failedAttempts = LockThreshold
       THEN [failed_login_attempts |-> failedAttempts,
             locked_until |-> toISOString(t + LockMs)]
       ELSE [failed_login_attempts |-> failedAttempts]

\* Mutant: a failed attempt also stamps last_login.
FailedLoginUpdates_StampsLogin(user, t) ==
    LET failedAttempts == user.failed_login_attempts + 1
    IN IF failedAttempts >= LockThreshold
       THEN [failed_login_attempts |-> failedAttempts,
             locked_until |-> toISOString(t + LockMs),
             last_login |-> toISOString(t)]
       ELSE [failed_login_attempts |-> failedAttempts,
             last_login |-> toISOString(t)]

\* Mutant: the failed attempt is not counted.
FailedLoginUpdates_NoIncrement(user, t) ==
    LET failedAttempts == user.failed_login_attempts
    IN IF failedAttempts >= LockThreshold
       THEN [failed_login_attempts |-> failedAttempts,
             locked_until |-> toISOString(t + LockMs)]
       ELSE [failed_login_attempts |-> failedAttempts]

\* The updates login writes after a password that does not verify.
FailedLoginUpdates(user, t) ==
    LET failedAttempts == user.failed_login_attempts + 1
    IN IF failedAttempts >= LockThreshold
       THEN [failed_login_attempts |-> failedAttempts,
             locked_until |-> toISOString(t + LockMs)]
       ELSE [failed_login_attempts |-> failedAttempts]

\* Mutant: a successful login does not clear locked_until.
SuccessLoginUpdates_KeepsLock(t) ==
    [failed_login_attempts |-> 0,
     last_login |-> toISOString(t)]

\* The updates login writes after a password that verifies.
SuccessLoginUpdates(t) ==
    [failed_login_attempts |-> 0,
     locked_until |-> NullTime,
     last_login |-> toISOString(t)]

\* ------------------------------------------------------ AuthService.login
\* What login does once db.getUserByUsername has answered `user`, on the rows
\* `rows` at time t: the rows afterwards, the updates handed to
\* db.updateUser, the value returned, the audit calls made and the session
\* stored.
LoginAfterLookup(rows, t, session, user, password) ==
    IF user = NullUser THEN
        [rows |-> rows, session |-> session, writes |-> <<>>,
         audit |-> <<AuditEvent(NullId, "LOGIN_FAILED")>>,
         result |-> UnknownUserResult]
    ELSE IF isInactive(user) THEN
        [rows |-> rows, session |-> session, writes |-> <<>>,
         audit |-> <<>>,
         result |-> [success |-> FALSE, error |-> ErrAccountInactive]]
    ELSE IF isLocked(user, t) THEN
        [rows |-> rows, session |-> session, writes |-> <<>>,
         audit |-> <<>>,
         result |-> [success |-> FALSE, error |-> ErrAccountLocked]]
    ELSE IF ~verifyPassword(password, user.password_hash) THEN
        [rows |-> updateUser(rows, user.user_id, FailedLoginUpdates(user, t)),
         session |-> session,
         writes |-> <<FailedLoginUpdates(user, t)>>,
         audit |-> <<AuditEvent(user.user_id, "LOGIN_FAILED")>>,
         result |-> WrongPasswordResult]
    ELSE
        LET authUser == AuthUserOf(user)
            token == generateToken(authUser, t)
        IN [rows |-> updateUser(rows, user.user_id, SuccessLoginUpdates(t)),
            session |-> [user |-> authUser, token |-> token],
            writes |-> <<SuccessLoginUpdates(t)>>,
            audit |-> <<AuditEvent(user.user_id, "LOGIN_SUCCESS")>>,
            result |-> [success |-> TRUE, user |-> authUser, token |-> token]]

\* login with the store answering the lookup at once.
LoginEffect(rows, t, session, username, password) ==
    LoginAfterLookup(rows, t, session, getUserByUsername(rows, username),
                     password)

\* --------------------------------------------- AuthService.changePassword
\* Mutant: changePassword does not clear force_password_change.
ChangePasswordUpdates_KeepsFlag(newPassword) ==
    [password_hash |-> hashPassword(newPassword)]

\* Mutant: changePassword also clears the lockout state.
ChangePasswordUpdates_ClearsLockout(newPassword) ==
    [password_hash |-> hashPassword(newPassword),
     force_password_change |-> FALSE,
     failed_login_attempts |-> 0,
     locked_until |-> NullTime]

\* The updates changePassword writes.
ChangePasswordUpdates(newPassword) ==
    [password_hash |-> hashPassword(newPassword),
     force_password_change |-> FALSE]

\* changePassword from the row its lookup returned; the write goes to the
\* rows as they are when it is made.
ChangePasswordAfterLookup(rows, user, userId, currentPassword, newPassword) ==
    IF user = NullUser THEN
        [rows |-> rows, audit |-> <<>>,
         result |-> [success |-> FALSE, error |-> ErrUserNotFound]]
    ELSE IF ~verifyPassword(currentPassword, user.password_hash) THEN
        [rows |-> rows, audit |-> <<>>,
         result |-> [success |-> FALSE, error |-> ErrCurrentPassword]]
    ELSE
        [rows |-> updateUser(rows, userId, ChangePasswordUpdates(newPassword)),
         audit |-> <<AuditEvent(userId, "PASSWORD_CHANGE")>>,
         result |-> [success |-> TRUE]]

ChangePasswordEffect(rows, userId, currentPassword, newPassword) ==
    ChangePasswordAfterLookup(rows, getUserById(rows, userId), userId,
                              currentPassword, newPassword)

\* ------------------------------------------ AuthService.resetUserPassword
\* Mutant: resetUserPassword does not clear the lockout state.
ResetPasswordUpdates_KeepsLock(tempPassword) ==
    [password_hash |-> hashPassword(tempPassword),
     force_password_change |-> TRUE]

\* Mutant: resetUserPassword does not set force_password_change.
ResetPasswordUpdates_KeepsFlag(tempPassword) ==
    [password_hash |-> hashPassword(tempPassword),
     failed_login_attempts |-> 0,
     locked_until |-> NullTime]

\* The updates resetUserPassword writes.
ResetPasswordUpdates(tempPassword) ==
    [password_hash |-> hashPassword(tempPassword),
     force_password_change |-> TRUE,
     failed_login_attempts |-> 0,
     locked_until |-> NullTime]

\* tempPassword is what generateTempPassword drew.
ResetUserPasswordEffect(rows, session, userId, tempPassword) ==
    IF updateThrows(rows, userId) THEN
        [rows |-> rows, audit |-> <<>>,
         result |-> [success |-> FALSE, error |-> ErrResetFailed]]
    ELSE
        [rows |-> updateUser(rows, userId, ResetPasswordUpdates(tempPassword)),
         audit |-> <<AuditEvent(IF session.user = NullUser THEN NullId
                                ELSE session.user.user_id,
                                "PASSWORD_RESET")>>,
         result |-> [success |-> TRUE, tempPassword |-> tempPassword]]

\* ---------------------------------------------------- unique constraints
\* The store rejects an insert or update that would give two rows the same
\* user_id or the same email, with error code 23505 and a message that names
\* the field.
NoError == [code |-> "none"]
UniqueViolation(field) == [code |-> "23505", field |-> field]

\* The errors the store can answer an insert of (userId, email) with.
InsertErrors(rows, userId, email) ==
    LET violated ==
            {f \in {"user_id"} : userId \in DOMAIN rows}
                \cup {f \in {"email"} :
                         \E id \in DOMAIN rows : rows[id].email = email}
    IN IF violated = {} THEN {NoError}
       ELSE {UniqueViolation(f) : f \in violated}

\* The error the store answers an update of row userId with.
UpdateError(rows, userId, updates) ==
    IF /\ "email" \in DOMAIN updates
       /\ \E id \in DOMAIN rows \ {userId} : rows[id].email = updates.email
    THEN UniqueViolation("email")
    ELSE NoError

\* Mutant: the catch block of createUser does not look at the error.
createUserCatch_Generic(error) ==
    [success |-> FALSE, error |-> ErrCreateFailed]

\* The catch block of AuthService.createUser.
createUserCatch(error) ==
    IF error.code = "23505" /\ error.field = "email"
    THEN [success |-> FALSE, error |-> ErrEmailExists]
    ELSE IF error.code = "23505" /\ error.field = "user_id"
    THEN [success |-> FALSE, error |-> ErrUserIdExists]
    ELSE [success |-> FALSE, error |-> ErrCreateFailed]

\* The catch block of UserService.updateUser.
updateUserCatch(error) ==
    IF error.code = "23505" /\ error.field = "email"
    THEN [success |-> FALSE, error |-> ErrEmailExists]
    ELSE [success |-> FALSE, error |-> ErrUpdateFailed]

\* ------------------------------------------------- UserService.updateUser
UpdateUserEffect(rows, userId, updates) ==
    IF updateThrows(rows, userId) THEN
        [rows |-> rows,
         result |-> [success |-> FALSE, error |-> ErrUpdateFailed]]
    ELSE IF UpdateError(rows, userId, updates) # NoError THEN
        [rows |-> rows,
         result |-> updateUserCatch(UpdateError(rows, userId, updates))]
    ELSE
        LET after == updateUser(rows, userId, updates) IN
        [rows |-> after,
         result |-> [success |-> TRUE, user |-> AuthUserOf(after[userId])]]

\* ------------------------------------------- UserService.toggleUserStatus
ToggleUserStatusEffect(rows, userId) ==
    LET user == getUserById(rows, userId) IN
    IF user = NullUser THEN
        [rows |-> rows,
         result |-> [success |-> FALSE, error |-> ErrUserNotFound]]
    ELSE UpdateUserEffect(rows, userId, [is_active |-> ~user.is_active])

\* ------------------------------------------------- failing store and sink
\* fault names the call of the operation that fails: the lookup
\* (db.getUserByUsername, db.getUserById), the write (db.updateUser), the
\* audit sink (db.createAuditLog), or none.
Faults == {"none", "lookup", "write", "audit"}

StoreCall(op, ok) == [op |-> op, ok |-> ok]

\* Mutant: the catch block returns the text of the error it caught.
SystemErrorResult_LeaksText(message, err) ==
    [success |-> FALSE, error |-> err]

\* catch (error) { console.error(...); return { success: false, error: message } }
SystemErrorResult(message, err) ==
    [success |-> FALSE, error |-> message]

\* Mutant: logAuditEvent lets the error of db.createAuditLog through.
logAuditEventThrows_Propagates(sinkFails) == sinkFails

\* Whether logAuditEvent throws to its caller: its try/catch logs the error
\* of db.createAuditLog and returns.
logAuditEventThrows(sinkFails) == FALSE

\* AuthService.login with one call that may fail.  calls lists the store
\* calls made, in order; auditFailed tells that the audit sink was called and
\* failed.
LoginWithFaults(rows, t, session, username, password, fault) ==
    IF fault = "lookup" THEN
        [rows |-> rows, session |-> session, writes |-> <<>>, audit |-> <<>>,
         calls |-> <<StoreCall("getUserByUsername", FALSE)>>,
         auditFailed |-> FALSE,
         result |-> SystemErrorResult(ErrLoginSystem, StoreErrorText)]
    ELSE
        LET e == LoginEffect(rows, t, session, username, password)
            lookup == <<StoreCall("getUserByUsername", TRUE)>>
        IN IF e.writes # <<>> /\ fault = "write" THEN
               [rows |-> rows, session |-> session, writes |-> <<>>,
                audit |-> <<>>,
                calls |-> lookup \o <<StoreCall("updateUser", FALSE)>>,
                auditFailed |-> FALSE,
                result |-> SystemErrorResult(ErrLoginSystem, StoreErrorText)]
           ELSE
               LET calls == IF e.writes # <<>>
                            THEN lookup \o <<StoreCall("updateUser", TRUE)>>
                            ELSE lookup
                   sinkFails == e.audit # <<>> /\ fault = "audit"
               IN IF sinkFails /\ logAuditEventThrows(sinkFails) THEN
                      [rows |-> e.rows, session |-> e.session,
                       writes |-> e.writes, audit |-> <<>>, calls |-> calls,
                       auditFailed |-> TRUE,
                       result |-> SystemErrorResult(ErrLoginSystem,
                                                    StoreErrorText)]
                  ELSE
                      [rows |-> e.rows, session |-> e.session,
                       writes |-> e.writes,
                       audit |-> IF sinkFails THEN <<>> ELSE e.audit,
                       calls |-> calls, auditFailed |-> sinkFails,
                       result |-> e.result]

\* AuthService.changePassword with one call that may fail.
ChangePasswordWithFaults(rows, userId, currentPassword, newPassword, fault) ==
    IF fault = "lookup" THEN
        [rows |-> rows, audit |-> <<>>,
         calls |-> <<StoreCall("getUserById", FALSE)>>,
         auditFailed |-> FALSE,
         result |-> SystemErrorResult(ErrChangeFailed, StoreErrorText)]
    ELSE
        LET e == ChangePasswordEffect(rows, userId, currentPassword,
                                      newPassword)
            lookup == <<StoreCall("getUserById", TRUE)>>
        IN IF ~e.result.success THEN
               [rows |-> e.rows, audit |-> e.audit, calls |-> lookup,
                auditFailed |-> FALSE, result |-> e.result]
           ELSE IF fault = "write" THEN
               [rows |-> rows, audit |-> <<>>,
                calls |-> lookup \o <<StoreCall("updateUser", FALSE)>>,
                auditFailed |-> FALSE,
                result |-> SystemErrorResult(ErrChangeFailed, StoreErrorText)]
           ELSE
               LET calls == lookup \o <<StoreCall("updateUser", TRUE)>>
                   sinkFails == fault = "audit"
               IN IF sinkFails /\ logAuditEventThrows(sinkFails) THEN
                      [rows |-> e.rows, audit |-> <<>>, calls |-> calls,
                       auditFailed |-> TRUE,
                       result |-> SystemErrorResult(ErrChangeFailed,
                                                    StoreErrorText)]
                  ELSE
                      [rows |-> e.rows,
                       audit |-> IF sinkFails THEN <<>> ELSE e.audit,
                       calls |-> calls, auditFailed |-> sinkFails,
                       result |-> e.result]

\* AuthService.resetUserPassword with one call that may fail; it makes no
\* lookup.
ResetUserPasswordWithFaults(rows, session, userId, tempPassword, fault) ==
    LET e == ResetUserPasswordEffect(rows, session, userId, tempPassword)
    IN IF fault = "write" \/ ~e.result.success THEN
           [rows |-> rows, audit |-> <<>>,
            calls |-> <<StoreCall("updateUser", FALSE)>>,
            auditFailed |-> FALSE,
            result |-> SystemErrorResult(ErrResetFailed, StoreErrorText)]
       ELSE
           LET calls == <<StoreCall("updateUser", TRUE)>>
               sinkFails == fault = "audit"
           IN IF sinkFails /\ logAuditEventThrows(sinkFails) THEN
                  [rows |-> e.rows, audit |-> <<>>, calls |-> calls,
                   auditFailed |-> TRUE,
                   result |-> SystemErrorResult(ErrResetFailed,
                                                StoreErrorText)]
              ELSE
                  [rows |-> e.rows,
                   audit |-> IF sinkFails THEN <<>> ELSE e.audit,
                   calls |-> calls, auditFailed |-> sinkFails,
                   result |-> e.result]

\* AuthService.logout with an audit sink that may fail: logout has no
\* try/catch of its own, so an error that logAuditEvent let through would
\* leave the session in place.
LogoutWithFaults(session, fault) ==
    LET sinkFails == session.user # NullUser /\ fault = "audit"
    IN IF sinkFails /\ logAuditEventThrows(sinkFails) THEN
           [session |-> session, audit |-> <<>>, auditFailed |-> TRUE,
            thrown |-> TRUE]
       ELSE
           [session |-> [user |-> NullUser, token |-> NullToken],
            audit |-> IF session.user # NullUser /\ ~sinkFails
                      THEN <<AuditEvent(session.user.user_id, "LOGOUT")>>
                      ELSE <<>>,
            auditFailed |-> sinkFails, thrown |-> FALSE]

\* ------------------------------------------------- UserService.deleteUser
\* db.deleteUser deletes the rows that match; none matching is no error.
DeleteUserEffect(rows, userId) ==
    [rows |-> [id \in DOMAIN rows \ {userId} |-> rows[id]],
     result |-> [success |-> TRUE]]

\* -------------------------------------------------- session and storage
NullSession == [user |-> NullUser, token |-> NullToken]

JSONstringify(value) == [json |-> value]
JSONparse(text) == text.json

\* What storeAuth leaves in localStorage (auth_user, auth_token); the session
\* it sets is the same user and token.
storeAuth(user, token) == [user |-> JSONstringify(user), token |-> token]

\* What clearAuth leaves in localStorage, for both items: no item.
clearAuth == [user |-> NullUser, token |-> NullToken]

\* Mutant: a stored token is accepted only before its exp.
loadStoredAuth_ChecksExp(storage, t) ==
    IF /\ storage.user # NullUser
       /\ storage.token # NullToken
       /\ storage.token.b64.exp > t
    THEN [user |-> JSONparse(storage.user), token |-> storage.token]
    ELSE NullSession

\* The session the constructor of AuthService restores from localStorage.
\* t is the clock at that time: the code does not read it, nor the token.
loadStoredAuth(storage, t) ==
    IF storage.user # NullUser /\ storage.token # NullToken
    THEN [user |-> JSONparse(storage.user), token |-> storage.token]
    ELSE NullSession

\* AuthService.isAuthenticated
isAuthenticated(session) ==
    session.user # NullUser /\ session.token # NullToken

\* ------------------------------------------------------------ AuthContext
initialState ==
    [user |-> NullUser, token |-> NullToken, isAuthenticated |-> FALSE,
     isLoading |-> TRUE]

authReducer(state, action) ==
    CASE action.type = "SET_LOADING" ->
           [state EXCEPT !.isLoading = action.payload]
      [] action.type = "LOGIN_SUCCESS" ->
           [state EXCEPT !.user = action.payload.user,
                         !.token = action.payload.token,
                         !.isAuthenticated = TRUE,
                         !.isLoading = FALSE]
      [] action.type = "LOGIN_FAILURE" ->
           [state EXCEPT !.user = NullUser, !.token = NullToken,
                         !.isAuthenticated = FALSE, !.isLoading = FALSE]
      [] action.type = "LOGOUT" ->
           [state EXCEPT !.user = NullUser, !.token = NullToken,
                         !.isAuthenticated = FALSE, !.isLoading = FALSE]
      [] action.type = "UPDATE_USER" ->
           [state EXCEPT !.user = action.payload]
      [] OTHER -> state

\* The state of the context once the effect of AuthProvider has run on mount.
AuthProviderMount(session) ==
    IF session.user # NullUser /\ session.token # NullToken
    THEN authReducer(initialState,
                     [type |-> "LOGIN_SUCCESS",
                      payload |-> [user |-> session.user,
                                   token |-> session.token]])
    ELSE authReducer(initialState, [type |-> "SET_LOADING", payload |-> FALSE])

\* The state of the context after its login got result from the service.
ContextLoginState(state, result) ==
    LET loading == authReducer(state,
                               [type |-> "SET_LOADING", payload |-> TRUE])
    IN IF result.success
       THEN authReducer(loading,
                        [type |-> "LOGIN_SUCCESS",
                         payload |-> [user |-> result.user,
                                      token |-> result.token]])
       ELSE authReducer(loading, [type |-> "LOGIN_FAILURE"])

\* No changePassword of the context is awaiting the service.
NoCall == [pc |-> "idle"]

\* ------------------------------------------------------------------ state
Session == [user |-> currentUser, token |-> authToken]

\* Mutant: a created account need not change its temporary password.
NewUser_NoForce(userId, name, email, role, tempPassword) ==
    [user_id |-> userId,
     name |-> name,
     email |-> email,
     role |-> role,
     password_hash |-> hashPassword(tempPassword),
     is_active |-> TRUE,
     force_password_change |-> FALSE,
     failed_login_attempts |-> 0,
     locked_until |-> NullTime,
     last_login |-> NullTime]

\* The row db.createUser stores for AuthService.createUser.
NewUser(userId, name, email, role, tempPassword) ==
    [user_id |-> userId,
     name |-> name,
     email |-> email,
     role |-> role,
     password_hash |-> hashPassword(tempPassword),
     is_active |-> TRUE,
     force_password_change |-> TRUE,
     failed_login_attempts |-> 0,
     locked_until |-> NullTime,
     last_login |-> NullTime]

\* AuthService.createUser; tempPassword is what generateTempPassword drew
\* and error is what db.createUser answered.
CreateUserEffect(rows, session, userId, name, email, role, tempPassword, error) ==
    IF error # NoError THEN
        [rows |-> rows, audit |-> <<>>, result |-> createUserCatch(error)]
    ELSE
        LET newUser == NewUser(userId, name, email, role, tempPassword) IN
        [rows |-> [id \in DOMAIN rows \cup {userId} |->
                      IF id = userId THEN newUser ELSE rows[id]],
         audit |-> <<AuditEvent(IF session.user = NullUser THEN NullId
                                ELSE session.user.user_id,
                                "USER_CREATE")>>,
         result |-> [success |-> TRUE, user |-> AuthUserOf(newUser),
                     tempPassword |-> tempPassword]]

\* A row as no failed attempt has touched it.
IsFresh(user) ==
    user.failed_login_attempts = 0 /\ user.locked_until = NullTime

Min(a, b) == IF a < b THEN a ELSE b

Init ==
    /\ \E pw \in [UserIds -> Passwords], nm \in [UserIds -> Names] :
          /\ \A u, v \in UserIds : nm[u] = nm[v] => u = v
          /\ users = [u \in UserIds |-> NewUser(u, nm[u], DefaultEmail, "student",
                                                pw[u])]
    /\ now = 0
    /\ currentUser = NullUser
    /\ authToken = NullToken
    /\ last = [kind |-> "init"]
    /\ streak = [u \in AccountIds |-> 0]
    /\ fresh = [u \in AccountIds |-> TRUE]
    /\ inflight = [p \in Procs |-> [pc |-> "idle"]]
    /\ guesses = [u \in AccountIds |-> 0]
    /\ client = [storage |-> clearAuth, state |-> initialState,
                 pending |-> NoCall]

\* ---------------------------------------------------------------- actions
Login(username, password) ==
    LET e == LoginEffect(users, now, Session, username, password)
        user == getUserByUsername(users, username)
    IN /\ user # NullUser => user.failed_login_attempts < MaxFailed
       /\ users' = e.rows
       /\ currentUser' = e.session.user
       /\ authToken' = e.session.token
       /\ last' = [kind |-> "login", username |-> username,
                   password |-> password, target |-> user,
                   before |-> users, at |-> now,
                   streak |-> streak, fresh |-> fresh,
                   result |-> e.result, audit |-> e.audit,
                   writes |-> e.writes]
       /\ IF user = NullUser THEN UNCHANGED <<streak, fresh>>
          ELSE IF e.result.success THEN
               /\ streak' = [streak EXCEPT ![user.user_id] = 0]
               /\ fresh' = [fresh EXCEPT ![user.user_id] = TRUE]
          ELSE IF e.rows # users THEN    \* the password did not verify
               /\ streak' = [streak EXCEPT ![user.user_id] =
                                Min(@ + 1, LockThreshold)]
               /\ UNCHANGED fresh
          ELSE UNCHANGED <<streak, fresh>>
       /\ UNCHANGED <<now, inflight, guesses, client>>

ChangePassword(userId, currentPassword, newPassword) ==
    LET e == ChangePasswordEffect(users, userId, currentPassword, newPassword)
    IN /\ users' = e.rows
       /\ last' = [kind |-> "changePassword", userId |-> userId,
                   currentPassword |-> currentPassword,
                   newPassword |-> newPassword,
                   before |-> users, at |-> now,
                   result |-> e.result, audit |-> e.audit]
       /\ UNCHANGED <<now, currentUser, authToken, streak, fresh, inflight, guesses, client>>

\* The streak of failed logins of a row ends when an administrator writes it.
EndStreak(rows, userId) ==
    IF userId \in DOMAIN rows
    THEN /\ streak' = [streak EXCEPT ![userId] = 0]
         /\ fresh' = [fresh EXCEPT ![userId] = IsFresh(rows[userId])]
    ELSE UNCHANGED <<streak, fresh>>

ResetUserPassword(userId, tempPassword) ==
    LET e == ResetUserPasswordEffect(users, Session, userId, tempPassword)
    IN /\ users' = e.rows
       /\ last' = [kind |-> "resetUserPassword", userId |-> userId,
                   before |-> users, at |-> now,
                   result |-> e.result, audit |-> e.audit]
       /\ EndStreak(e.rows, userId)
       /\ UNCHANGED <<now, currentUser, authToken, inflight, guesses, client>>

ToggleUserStatus(userId) ==
    LET e == ToggleUserStatusEffect(users, userId)
    IN /\ users' = e.rows
       /\ last' = [kind |-> "toggleUserStatus", userId |-> userId,
                   before |-> users, at |-> now,
                   result |-> e.result, audit |-> <<>>]
       /\ EndStreak(e.rows, userId)
       /\ UNCHANGED <<now, currentUser, authToken, inflight, guesses, client>>

\* AuthService.logout
Logout ==
    /\ currentUser' = NullUser
    /\ authToken' = NullToken
    /\ last' = [kind |-> "logout", before |-> users, at |-> now,
                audit |-> IF currentUser # NullUser
                          THEN <<AuditEvent(currentUser.user_id, "LOGOUT")>>
                          ELSE <<>>]
    /\ UNCHANGED <<users, now, streak, fresh, inflight, guesses, client>>

\* Time passes, to the last instant of a lock or to the instant it ends (the
\* instants at which the comparison of locked_until with the clock changes).
Tick ==
    \E u \in DOMAIN users, d \in {0, 1} :
       /\ users[u].locked_until # NullTime
       /\ DateParse(users[u].locked_until) - d > now
       /\ DateParse(users[u].locked_until) - d <= MaxNow
       /\ now' = DateParse(users[u].locked_until) - d
       /\ last' = [kind |-> "tick"]
       /\ UNCHANGED <<users, currentUser, authToken, streak, fresh, inflight, guesses, client>>

Next ==
    \/ \E h \in Handles, p \in Passwords : Login(h, p)
    \/ \E id \in UserIds \cup {AbsentId}, c \in Passwords, n \in Passwords :
          ChangePassword(id, c, n)
    \/ \E id \in UserIds \cup {AbsentId}, t \in Passwords :
          ResetUserPassword(id, t)
    \/ \E id \in UserIds \cup {AbsentId} : ToggleUserStatus(id)
    \/ Logout
    \/ Tick

Spec == Init /\ [][Next]_vars

\* -------------------------------- changePassword overlapping with a reset
\* changePassword awaits db.getUserById, bcrypt.compare, bcrypt.hash and
\* db.updateUser: its first step is the lookup, its second the rest of the
\* method, run on the row the lookup returned.
ChangePasswordRead(p, userId, currentPassword, newPassword) ==
    /\ inflight[p].pc = "idle"
    /\ inflight' = [inflight EXCEPT ![p] =
                       [pc |-> "changeRead", userId |-> userId,
                        currentPassword |-> currentPassword,
                        newPassword |-> newPassword,
                        user |-> getUserById(users, userId)]]
    /\ last' = [kind |-> "changePasswordRead", proc |-> p]
    /\ UNCHANGED <<users, now, currentUser, authToken, streak, fresh,
                   guesses, client>>

ChangePasswordFinish(p) ==
    /\ inflight[p].pc = "changeRead"
    /\ LET call == inflight[p]
           e == ChangePasswordAfterLookup(users, call.user, call.userId,
                                          call.currentPassword,
                                          call.newPassword)
       IN /\ users' = e.rows
          /\ inflight' = [inflight EXCEPT ![p] = [pc |-> "idle"]]
          /\ last' = [kind |-> "changePassword", proc |-> p,
                      userId |-> call.userId,
                      currentPassword |-> call.currentPassword,
                      newPassword |-> call.newPassword,
                      target |-> call.user,
                      before |-> users, at |-> now,
                      result |-> e.result, audit |-> e.audit]
    /\ UNCHANGED <<now, currentUser, authToken, streak, fresh, guesses, client>>

NextChange ==
    \/ \E p \in Procs, id \in UserIds \cup {AbsentId},
          c \in Passwords, n \in Passwords : ChangePasswordRead(p, id, c, n)
    \/ \E p \in Procs : ChangePasswordFinish(p)
    \/ \E id \in UserIds, t \in Passwords : ResetUserPassword(id, t)

SpecChange == Init /\ [][NextChange]_vars

\* ------------------------------------------------- the browser client
\* AuthProvider.login: the service's login, then the dispatch of its result.
ContextLogin(username, password) ==
    LET e == LoginEffect(users, now, Session, username, password)
        user == getUserByUsername(users, username)
    IN /\ user # NullUser => user.failed_login_attempts < MaxFailed
       /\ users' = e.rows
       /\ currentUser' = e.session.user
       /\ authToken' = e.session.token
       /\ client' = [client EXCEPT
                       !.storage = IF e.result.success
                                   THEN storeAuth(e.session.user,
                                                  e.session.token)
                                   ELSE @,
                       !.state = ContextLoginState(@, e.result)]
       /\ last' = [kind |-> "contextLogin", username |-> username,
                   password |-> password, session |-> Session,
                   state |-> client.state, at |-> now,
                   result |-> e.result]
       /\ UNCHANGED <<now, streak, fresh, inflight, guesses>>

\* AuthProvider.logout: the service's logout, then the dispatch of LOGOUT.
ContextLogout ==
    /\ currentUser' = NullUser
    /\ authToken' = NullToken
    /\ client' = [client EXCEPT
                    !.storage = clearAuth,
                    !.state = authReducer(@, [type |-> "LOGOUT"])]
    /\ last' = [kind |-> "contextLogout", session |-> Session,
                state |-> client.state, at |-> now]
    /\ UNCHANGED <<users, now, streak, fresh, inflight, guesses>>

\* AuthProvider.changePassword up to the answer of the service: it has read
\* state.user and awaits authService.changePassword.
ContextChangePasswordCall(currentPassword, newPassword) ==
    /\ client.pending = NoCall
    /\ client.state.user # NullUser
    /\ LET e == ChangePasswordEffect(users, client.state.user.user_id,
                                     currentPassword, newPassword)
       IN /\ users' = e.rows
          /\ client' = [client EXCEPT
                          !.pending = [pc |-> "awaiting",
                                       user |-> client.state.user,
                                       result |-> e.result]]
          /\ last' = [kind |-> "contextChangePasswordCall",
                      state |-> client.state, at |-> now,
                      result |-> e.result]
    /\ UNCHANGED <<now, currentUser, authToken, streak, fresh, inflight,
                   guesses>>

\* AuthProvider.changePassword after the await: UPDATE_USER with the user it
\* read before the await, if the service succeeded.
ContextChangePasswordReturn ==
    /\ client.pending # NoCall
    /\ client' = [client EXCEPT
                    !.pending = NoCall,
                    !.state =
                       IF client.pending.result.success
                       THEN authReducer(@,
                              [type |-> "UPDATE_USER",
                               payload |-> [client.pending.user EXCEPT
                                              !.force_password_change = FALSE]])
                       ELSE @]
    /\ last' = [kind |-> "contextChangePasswordReturn",
                state |-> client.state, at |-> now,
                result |-> client.pending.result]
    /\ UNCHANGED <<users, now, currentUser, authToken, streak, fresh,
                   inflight, guesses>>

\* AuthProvider.refreshUser
RefreshUser ==
    /\ client' = [client EXCEPT
                    !.state =
                       IF currentUser # NullUser /\ @.token # NullToken
                       THEN authReducer(@, [type |-> "UPDATE_USER",
                                            payload |-> currentUser])
                       ELSE @]
    /\ last' = [kind |-> "refreshUser", state |-> client.state, at |-> now]
    /\ UNCHANGED <<users, now, currentUser, authToken, streak, fresh,
                   inflight, guesses>>

\* The page is loaded again: the module constructs a new AuthService, whose
\* constructor runs loadStoredAuth, and AuthProvider mounts with initialState.
Reload ==
    LET session == loadStoredAuth(client.storage, now)
    IN /\ currentUser' = session.user
       /\ authToken' = session.token
       /\ client' = [client EXCEPT !.state = AuthProviderMount(session),
                                   !.pending = NoCall]
       /\ last' = [kind |-> "reload", session |-> Session,
                   storage |-> client.storage,
                   state |-> client.state, at |-> now]
       /\ UNCHANGED <<users, now, streak, fresh, inflight, guesses>>

\* Time passes to the exp of the token of the session, or just beyond it.
TokenExpires ==
    \E d \in {0, 1} :
       /\ authToken # NullToken
       /\ authToken.b64.iat <= MaxNow
       /\ authToken.b64.exp + d > now
       /\ now' = authToken.b64.exp + d
       /\ last' = [kind |-> "tokenExpires", session |-> Session,
                   state |-> client.state, at |-> now]
       /\ UNCHANGED <<users, currentUser, authToken, streak, fresh,
                      inflight, guesses, client>>

NextClient ==
    \/ \E h \in Handles, p \in Passwords : ContextLogin(h, p)
    \/ ContextLogout
    \/ \E c \in Passwords, n \in Passwords : ContextChangePasswordCall(c, n)
    \/ ContextChangePasswordReturn
    \/ RefreshUser
    \/ Reload
    \/ TokenExpires

SpecClient == Init /\ [][NextClient]_vars

\* ------------------------------------------- operations under store faults
LoginUnderFaults(username, password, fault) ==
    LET e == LoginWithFaults(users, now, Session, username, password, fault)
        user == getUserByUsername(users, username)
    IN /\ user # NullUser => user.failed_login_attempts < MaxFailed
       /\ users' = e.rows
       /\ currentUser' = e.session.user
       /\ authToken' = e.session.token
       /\ last' = [kind |-> "login", fault |-> fault,
                   username |-> username, password |-> password,
                   target |-> user, before |-> users, at |-> now,
                   session |-> Session,
                   result |-> e.result, audit |-> e.audit,
                   writes |-> e.writes, calls |-> e.calls,
                   auditFailed |-> e.auditFailed]
       /\ UNCHANGED <<now, streak, fresh, inflight, guesses, client>>

ChangePasswordUnderFaults(userId, currentPassword, newPassword, fault) ==
    LET e == ChangePasswordWithFaults(users, userId, currentPassword,
                                      newPassword, fault)
    IN /\ users' = e.rows
       /\ last' = [kind |-> "changePassword", fault |-> fault,
                   userId |-> userId,
                   currentPassword |-> currentPassword,
                   newPassword |-> newPassword,
                   before |-> users, at |-> now, session |-> Session,
                   result |-> e.result, audit |-> e.audit,
                   calls |-> e.calls, auditFailed |-> e.auditFailed]
       /\ UNCHANGED <<now, currentUser, authToken, streak, fresh, inflight, guesses, client>>

ResetUserPasswordUnderFaults(userId, tempPassword, fault) ==
    LET e == ResetUserPasswordWithFaults(users, Session, userId,
                                         tempPassword, fault)
    IN /\ users' = e.rows
       /\ last' = [kind |-> "resetUserPassword", fault |-> fault,
                   userId |-> userId, tempPassword |-> tempPassword,
                   before |-> users, at |-> now, session |-> Session,
                   result |-> e.result, audit |-> e.audit,
                   calls |-> e.calls, auditFailed |-> e.auditFailed]
       /\ UNCHANGED <<now, currentUser, authToken, streak, fresh, inflight, guesses, client>>

LogoutUnderFaults(fault) ==
    LET e == LogoutWithFaults(Session, fault)
    IN /\ currentUser' = e.session.user
       /\ authToken' = e.session.token
       /\ last' = [kind |-> "logout", fault |-> fault,
                   before |-> users, at |-> now, session |-> Session,
                   audit |-> e.audit, auditFailed |-> e.auditFailed,
                   thrown |-> e.thrown]
       /\ UNCHANGED <<users, now, streak, fresh, inflight, guesses, client>>

NextFaults ==
    \/ \E h \in Handles, p \in Passwords, f \in Faults :
          LoginUnderFaults(h, p, f)
    \/ \E id \in UserIds \cup {AbsentId}, c \in Passwords, n \in Passwords,
          f \in Faults : ChangePasswordUnderFaults(id, c, n, f)
    \/ \E id \in UserIds \cup {AbsentId}, t \in Passwords, f \in Faults :
          ResetUserPasswordUnderFaults(id, t, f)
    \/ \E f \in Faults : LogoutUnderFaults(f)
    \/ \E id \in UserIds : ToggleUserStatus(id)

SpecFaults == Init /\ [][NextFaults]_vars

\* ------------------------------------------------- account administration
\* The updates an administrator can pass to UserService.updateUser: its
\* parameter type admits name, email, whatsapp_number, academic_year,
\* current_semester and is_active only.
AdminUpdates ==
    [name : Names] \cup [is_active : BOOLEAN]
        \cup [name : Names, is_active : BOOLEAN]

CreateUser(userId, name, email, tempPassword) ==
    \E error \in InsertErrors(users, userId, email) :
       LET e == CreateUserEffect(users, Session, userId, name, email,
                                 "student", tempPassword, error)
       IN /\ users' = e.rows
          /\ last' = [kind |-> "createUser", userId |-> userId,
                      email |-> email, error |-> error,
                      before |-> users, at |-> now,
                      result |-> e.result, audit |-> e.audit]
          /\ IF e.result.success THEN EndStreak(e.rows, userId)
             ELSE UNCHANGED <<streak, fresh>>
          /\ UNCHANGED <<now, currentUser, authToken, inflight, guesses, client>>

DeleteUser(userId) ==
    LET e == DeleteUserEffect(users, userId)
    IN /\ users' = e.rows
       /\ last' = [kind |-> "deleteUser", userId |-> userId,
                   before |-> users, at |-> now,
                   result |-> e.result, audit |-> <<>>]
       /\ UNCHANGED <<now, currentUser, authToken, streak, fresh, inflight, guesses, client>>

UpdateUser(userId, updates) ==
    LET e == UpdateUserEffect(users, userId, updates)
    IN /\ users' = e.rows
       /\ last' = [kind |-> "updateUser", userId |-> userId,
                   updates |-> updates,
                   before |-> users, at |-> now,
                   result |-> e.result, audit |-> <<>>]
       /\ EndStreak(e.rows, userId)
       /\ UNCHANGED <<now, currentUser, authToken, inflight, guesses, client>>

NextAdmin ==
    \/ \E h \in Handles, p \in Passwords : Login(h, p)
    \/ \E id \in UserIds \cup {AbsentId}, c \in Passwords, n \in Passwords :
          ChangePassword(id, c, n)
    \/ \E id \in UserIds \cup {AbsentId}, t \in Passwords :
          ResetUserPassword(id, t)
    \/ \E id \in UserIds \cup {AbsentId} : ToggleUserStatus(id)
    \/ \E id \in UserIds \cup {AbsentId}, u \in AdminUpdates :
          UpdateUser(id, u)
    \/ \E id \in UserIds, n \in Names, t \in Passwords :
          CreateUser(id, n, DefaultEmail, t)
    \/ \E id \in UserIds \cup {AbsentId} : DeleteUser(id)

SpecAdmin == Init /\ [][NextAdmin]_vars

\* ------------------------------------------------- two accounts, two emails
NextDup ==
    \/ \E id \in AccountIds, n \in Names, em \in Emails, t \in Passwords :
          CreateUser(id, n, em, t)
    \/ \E id \in AccountIds \cup {AbsentId}, em \in Emails, b \in BOOLEAN :
          UpdateUser(id, [email |-> em, is_active |-> b])
    \/ \E id \in AccountIds : DeleteUser(id)

SpecDup == Init /\ [][NextDup]_vars

\* ------------------------------------------------------ overlapping logins
\* A login awaits db.getUserByUsername, bcrypt.compare and db.updateUser, so
\* the calls of other callers may run between its lookup and its write.  The
\* first step of a login is the lookup; the second is the rest of the method,
\* run on the row the lookup returned.
LoginRead(p, username, password) ==
    LET user == getUserByUsername(users, username)
    IN /\ inflight[p].pc = "idle"
       /\ user # NullUser => user.failed_login_attempts < MaxFailed
       /\ inflight' = [inflight EXCEPT ![p] =
                          [pc |-> "read", username |-> username,
                           password |-> password, user |-> user]]
       /\ last' = [kind |-> "loginRead", proc |-> p]
       /\ UNCHANGED <<users, now, currentUser, authToken, streak, fresh,
                      guesses, client>>

LoginFinish(p) ==
    /\ inflight[p].pc = "read"
    /\ LET call == inflight[p]
           e == LoginAfterLookup(users, now, Session, call.user, call.password)
       IN /\ users' = e.rows
          /\ currentUser' = e.session.user
          /\ authToken' = e.session.token
          /\ inflight' = [inflight EXCEPT ![p] = [pc |-> "idle"]]
          /\ last' = [kind |-> "login", proc |-> p,
                      username |-> call.username,
                      password |-> call.password, target |-> call.user,
                      before |-> users, at |-> now,
                      streak |-> streak, fresh |-> fresh,
                      result |-> e.result, audit |-> e.audit,
                      writes |-> e.writes]
          /\ guesses' =
                IF e.result.success
                THEN [guesses EXCEPT ![call.user.user_id] = 0]
                ELSE IF /\ e.writes # <<>>
                        /\ users[call.user.user_id].locked_until = NullTime
                THEN [guesses EXCEPT ![call.user.user_id] =
                         Min(@ + 1, LockThreshold + 1)]
                ELSE guesses
    /\ UNCHANGED <<now, streak, fresh, client>>

NextConc ==
    \/ \E p \in Procs, h \in Names, pw \in Passwords : LoginRead(p, h, pw)
    \/ \E p \in Procs : LoginFinish(p)
    \/ Tick

SpecConc == Init /\ [][NextConc]_vars

\* ------------------------------------------------------------- properties
AccountLockedResult == [success |-> FALSE, error |-> ErrAccountLocked]
AccountInactiveResult == [success |-> FALSE, error |-> ErrAccountInactive]
InvalidCredentialsResult == [success |-> FALSE, error |-> ErrInvalidCredentials]

\* locked_until is set and strictly greater than the time t.
LockedAt(user, t) ==
    user.locked_until # NullTime /\ user.locked_until.iso > t

\* The last step was a login whose handle found the row of an account.
LoginFound == last.kind = "login" /\ last.target # NullUser

\* The last step was a login with the password of the account it found.
LoginCorrectPassword ==
    LoginFound /\ verifyPassword(last.password, last.target.password_hash)

C2_SuccessResetsLockout ==
    (LoginFound /\ last.result.success)
    => /\ users[last.target.user_id].failed_login_attempts = 0
       /\ users[last.target.user_id].locked_until = NullTime

\* A login succeeded on an account that had failures counted and a lock set.
C2_Witness ==
    /\ LoginFound /\ last.result.success
    /\ last.target.failed_login_attempts >= LockThreshold
    /\ last.target.locked_until # NullTime

\* C3 as stated: login on an account whose locked_until is set and strictly
\* greater than now returns ACCOUNT_LOCKED and leaves the account unchanged.
C3_Original ==
    (LoginFound /\ LockedAt(last.target, last.at))
    => /\ last.result = AccountLockedResult
       /\ users = last.before

\* C3 amended: login on an active account whose locked_until is set and
\* strictly greater than now returns ACCOUNT_LOCKED, for a wrong or a correct
\* password alike; on any account in that lock state, active or not, the
\* login changes no row, so failed_login_attempts is not incremented and
\* locked_until is not extended.
C3_LockedShortCircuit ==
    (LoginFound /\ LockedAt(last.target, last.at))
    => /\ last.target.is_active => last.result = AccountLockedResult
       /\ users = last.before

\* A login with a wrong password was made on an active locked account.
C3_Witness ==
    /\ LoginFound /\ LockedAt(last.target, last.at)
    /\ last.target.is_active
    /\ ~verifyPassword(last.password, last.target.password_hash)

\* C4: on an account with is_active = false every login returns
\* ACCOUNT_INACTIVE, whatever the password and the lockout state, and changes
\* no field of any row.
C4_InactiveNeverAuthenticates ==
    (LoginFound /\ ~last.target.is_active)
    => /\ last.result = AccountInactiveResult
       /\ users = last.before

\* A login with the correct password was made on an inactive account whose
\* lock had expired.
C4_Witness ==
    /\ LoginCorrectPassword
    /\ ~last.target.is_active
    /\ last.target.locked_until # NullTime
    /\ ~LockedAt(last.target, last.at)

\* C5: on an account that was fresh (failed_login_attempts = 0, no lock),
\* after k < 5 consecutive wrong-password attempts locked_until is still not
\* set and the count is k; a following attempt on the active account with the
\* correct password returns SUCCESS and leaves failed_login_attempts = 0.
C5_FewerThanFiveFailuresThenSuccess ==
    /\ \A u \in DOMAIN users :
          (fresh[u] /\ streak[u] < LockThreshold)
          => /\ users[u].locked_until = NullTime
             /\ users[u].failed_login_attempts = streak[u]
    /\ (LoginCorrectPassword /\ last.target.is_active
          /\ last.fresh[last.target.user_id]
          /\ last.streak[last.target.user_id] < LockThreshold)
       => /\ last.result.success
          /\ users[last.target.user_id].failed_login_attempts = 0

\* Four wrong passwords on a fresh account, then the correct one.
C5_Witness ==
    /\ LoginCorrectPassword /\ last.target.is_active
    /\ last.fresh[last.target.user_id]
    /\ last.streak[last.target.user_id] = LockThreshold - 1
    /\ last.result.success

\* hash is the stored hash of the password pw.
Matches(pw, hash) == hash.digest = pw

\* The last step was a resetUserPassword that returned a temporary password.
ResetDone == last.kind = "resetUserPassword" /\ last.result.success

\* C6: a successful resetPassword leaves the account with
\* force_password_change = true, failed_login_attempts = 0 and locked_until
\* null, whether it was unlocked, locked or had an expired lock before.
C6_ResetClearsLockout ==
    ResetDone
    => /\ users[last.userId].force_password_change
       /\ users[last.userId].failed_login_attempts = 0
       /\ users[last.userId].locked_until = NullTime

\* A locked account whose force_password_change was false has been reset.
C6_Witness ==
    /\ ResetDone
    /\ LockedAt(last.before[last.userId], last.at)
    /\ ~last.before[last.userId].force_password_change

\* A login right after the reset, with the handle of the account that was
\* reset and the temporary password returned, succeeds and returns a profile
\* with force_password_change = true.
RoundTripSucceeds ==
    LET r == LoginEffect(users, now, Session, users[last.userId].name,
                         last.result.tempPassword).result
    IN r.success /\ r.user.force_password_change

\* C7 as stated: for any account, the temporary password returned by
\* resetPassword, used at once in login with the account's handle, yields
\* SUCCESS and a profile with force_password_change = true.
C7_Original == ResetDone => RoundTripSucceeds

\* C7 amended: the round trip succeeds for any active account that its handle
\* alone identifies.
C7_ResetRoundTrip ==
    (/\ ResetDone
     /\ users[last.userId].is_active
     /\ \A v \in DOMAIN users :
           users[v].name = users[last.userId].name => v = last.userId)
    => RoundTripSucceeds

\* An active account that was locked, with force_password_change false, has
\* been reset.
C7_Witness ==
    /\ ResetDone
    /\ users[last.userId].is_active
    /\ last.before[last.userId].failed_login_attempts >= LockThreshold
    /\ ~last.before[last.userId].force_password_change

\* The last step was a changePassword.
ChangeCalled == last.kind = "changePassword"

\* C8: a changePassword that does not succeed changes nothing: for an absent
\* account it returns NOT_FOUND, with a wrong current password
\* INVALID_CURRENT_PASSWORD, and in both cases every row is unchanged and no
\* audit event is emitted.
C8_FailedChangeIsNoOp ==
    ChangeCalled
    => /\ last.userId \notin DOMAIN last.before
          => last.result = [success |-> FALSE, error |-> ErrUserNotFound]
       /\ (/\ last.userId \in DOMAIN last.before
           /\ ~Matches(last.currentPassword,
                       last.before[last.userId].password_hash))
          => last.result = [success |-> FALSE, error |-> ErrCurrentPassword]
       /\ ~last.result.success => (users = last.before /\ last.audit = <<>>)

\* changePassword was called on an account with a wrong current password.
C8_Witness ==
    /\ ChangeCalled
    /\ last.userId \in DOMAIN last.before
    /\ ~Matches(last.currentPassword, last.before[last.userId].password_hash)
    /\ ~last.result.success

\* C9: changePassword with the correct current password stores a hash of
\* newPassword, sets force_password_change = false, changes nothing else,
\* emits one PASSWORD_CHANGE audit event and returns SUCCESS; a login on the
\* account right afterwards, if it is active and not locked, succeeds with
\* newPassword and returns INVALID_CREDENTIALS with the old password when the
\* two differ.
C9_ChangePasswordSucceeds ==
    (/\ ChangeCalled
     /\ last.userId \in DOMAIN last.before
     /\ Matches(last.currentPassword, last.before[last.userId].password_hash))
    => LET id == last.userId
           name == users[id].name
       IN /\ last.result = [success |-> TRUE]
          /\ Matches(last.newPassword, users[id].password_hash)
          /\ ~users[id].force_password_change
          /\ users = [last.before EXCEPT
                         ![id].password_hash = users[id].password_hash,
                         ![id].force_password_change = FALSE]
          /\ last.audit = <<AuditEvent(id, "PASSWORD_CHANGE")>>
          /\ (users[id].is_active /\ ~LockedAt(users[id], now))
             => /\ LoginEffect(users, now, Session, name,
                               last.newPassword).result.success
                /\ last.currentPassword # last.newPassword
                   => LoginEffect(users, now, Session, name,
                                  last.currentPassword).result
                      = InvalidCredentialsResult

\* An active unlocked account that had to change its password has changed it
\* to a different one.
C9_Witness ==
    /\ ChangeCalled
    /\ last.result.success
    /\ last.currentPassword # last.newPassword
    /\ last.before[last.userId].force_password_change
    /\ users[last.userId].is_active
    /\ ~LockedAt(users[last.userId], now)

\* C10: what login returns for a handle no account has is the same value
\* (success false, the same message, no profile, no token) as what it returns
\* for an active unlocked account with a wrong password.
C10_UnknownHandleIndistinguishable ==
    \A h1, h2 \in Handles, p1, p2 \in Passwords :
       (/\ \A u \in DOMAIN users : users[u].name # h1
        /\ \E u \in DOMAIN users :
              /\ users[u].name = h2
              /\ users[u].is_active
              /\ ~LockedAt(users[u], now)
              /\ ~Matches(p2, users[u].password_hash))
       => LET r1 == LoginEffect(users, now, Session, h1, p1).result
              r2 == LoginEffect(users, now, Session, h2, p2).result
          IN /\ r1 = r2
             /\ DOMAIN r1 = {"success", "error"}
             /\ ~r1.success

\* A login with an unknown handle was answered INVALID_CREDENTIALS while an
\* active unlocked account exists.
C10_Witness ==
    /\ last.kind = "login"
    /\ last.target = NullUser
    /\ last.result = InvalidCredentialsResult
    /\ \E u \in DOMAIN users :
          users[u].is_active /\ ~LockedAt(users[u], now)

\* The last step was a login.
LoginCalled == last.kind = "login"

\* C11: every login appends exactly one audit event, on every path: unknown
\* handle, inactive account, locked account, wrong password and success.
C11_OneAuditEventPerLogin ==
    LoginCalled => Len(last.audit) = 1

\* C12 as stated: every login makes exactly one write to the account store,
\* except on the inactive and locked paths, which make none.
C12_Original ==
    LoginCalled
    => Len(last.writes) =
          IF /\ last.target # NullUser
             /\ (~last.target.is_active \/ LockedAt(last.target, last.at))
          THEN 0 ELSE 1

\* C12 amended: a login makes exactly one write to the account store on the
\* wrong-password and success paths, and none on the unknown-handle, inactive
\* and locked paths.
C12_OneWriteAfterVerification ==
    LoginCalled
    => Len(last.writes) =
          IF \/ last.target = NullUser
             \/ ~last.target.is_active
             \/ LockedAt(last.target, last.at)
          THEN 0 ELSE 1

\* Logins have been made on an unknown handle and, with a wrong password, on
\* an active unlocked account: the last one wrote once.
C12_Witness ==
    /\ LoginFound
    /\ last.target.is_active
    /\ ~LockedAt(last.target, last.at)
    /\ ~Matches(last.password, last.target.password_hash)
    /\ Len(last.writes) = 1
    /\ last.target.failed_login_attempts >= 1

\* C13 as stated: in every reachable state, overlapping logins included, an
\* account has locked_until set only if its failed_login_attempts is at least
\* 5.  A login that read the row before the lock was set writes its own
\* smaller count over the locked row.
C13_LockedOnlyAtThreshold ==
    \A id \in DOMAIN users :
        users[id].locked_until # NullTime
            => users[id].failed_login_attempts >= LockThreshold

\* The last call was a login that found an active, unlocked row and was given
\* a password that does not match the row it read.
LoginWrongPassword ==
    /\ LoginFound
    /\ last.target.is_active
    /\ ~LockedAt(last.target, last.at)
    /\ ~Matches(last.password, last.target.password_hash)

\* C16: a failed login stores the count it read plus one, whatever other
\* logins have written since it read (last writer wins); so two overlapping
\* failed logins that read the same count raise it by one only.
C16_LastWriterWins ==
    LoginWrongPassword
        => users[last.target.user_id].failed_login_attempts
               = last.target.failed_login_attempts + 1

\* A failed login lands after another failed login that read the same count
\* has already been written: the row held the count plus one before this
\* write and holds the count plus one after it.
C16_Witness ==
    /\ LoginWrongPassword
    /\ last.before[last.target.user_id].failed_login_attempts
           = last.target.failed_login_attempts + 1
    /\ last.before[last.target.user_id].last_login
           = last.target.last_login
    /\ users[last.target.user_id].failed_login_attempts
           = last.target.failed_login_attempts + 1

\* The last call was a createUser that stored a new account.
CreateDone == last.kind = "createUser" /\ last.result.success

\* The last call was a changePassword on userId that succeeded.
ChangeDone(userId) ==
    /\ last.kind = "changePassword"
    /\ last.result.success
    /\ last.userId = userId

\* C14: every change of an account's failed_login_attempts is an increment by
\* exactly 1 made by a failed login, or a reset to 0 made by a successful
\* login or a password reset; the counter never decreases to a non-zero value
\* and never rises by more than 1.  A login that read the row before other
\* failed logins were counted writes its own smaller count over theirs.
C14_CounterStepsByOne ==
    "before" \in DOMAIN last =>
        \A id \in DOMAIN last.before \cap DOMAIN users :
            LET old == last.before[id].failed_login_attempts
                new == users[id].failed_login_attempts
            IN \/ new = old
               \/ /\ new = old + 1
                  /\ last.kind = "login"
                  /\ ~last.result.success
               \/ /\ new = 0
                  /\ \/ last.kind = "login" /\ last.result.success
                     \/ ResetDone

\* C15: force_password_change is true right after createUser and after every
\* successful resetPassword, and the only call that changes it from true to
\* false on an account is a successful changePassword on that account: login,
\* failed changePassword, updateUser and toggleUserStatus never clear it.
C15_ForceChangeClearedOnlyByChange ==
    /\ CreateDone => users[last.userId].force_password_change
    /\ ResetDone => users[last.userId].force_password_change
    /\ "before" \in DOMAIN last =>
          \A id \in DOMAIN last.before \cap DOMAIN users :
              /\ last.before[id].force_password_change
              /\ ~users[id].force_password_change
              => ChangeDone(id)

\* An account whose flag had been cleared is deleted and created again: the
\* new row has the flag set.
C15_Witness ==
    /\ CreateDone
    /\ users[last.userId].force_password_change
    /\ currentUser # NullUser
    /\ currentUser.user_id = last.userId
    /\ ~currentUser.force_password_change

\* The three lockout states of a row at time t.
Unlocked(user) ==
    user.failed_login_attempts < LockThreshold /\ user.locked_until = NullTime

Locked(user, t) ==
    user.failed_login_attempts >= LockThreshold /\ LockedAt(user, t)

LockExpired(user, t) ==
    /\ user.failed_login_attempts >= LockThreshold
    /\ user.locked_until # NullTime
    /\ user.locked_until.iso <= t

\* C19 as stated: at every moment each account is UNLOCKED, with
\* failed_login_attempts < 5, or LOCKED, with locked_until in the future; so
\* once time has passed locked_until, failed_login_attempts is below 5.
C19_Original ==
    \A id \in DOMAIN users :
        \/ users[id].failed_login_attempts < LockThreshold
        \/ LockedAt(users[id], now)

\* C19 amended: between calls that do not overlap, each account is in one of
\* three lockout states: unlocked (failed_login_attempts < 5, locked_until
\* null), locked (failed_login_attempts >= 5, locked_until in the future) or
\* expired (failed_login_attempts >= 5, locked_until set and not in the
\* future).  The passing of locked_until lowers no counter.
C19_ThreeLockoutStates ==
    \A id \in DOMAIN users :
        \/ Unlocked(users[id])
        \/ Locked(users[id], now)
        \/ LockExpired(users[id], now)

\* Time has just reached locked_until of an account: the lock has expired
\* and the counter is still at the threshold.
C19_Witness ==
    /\ last.kind = "tick"
    /\ \E id \in DOMAIN users :
          /\ LockExpired(users[id], now)
          /\ ~LockedAt(users[id], now)

\* The last call was a login on an active account whose locked_until is set
\* and is not after the time of the call.
LoginAfterExpiry ==
    /\ LoginFound
    /\ last.target.is_active
    /\ last.target.locked_until # NullTime
    /\ last.target.locked_until.iso <= last.at

\* C20: once the current time is at or past locked_until, the next login on
\* the active account is evaluated normally, with no timer and no
\* administrator action: with the correct password it succeeds and leaves
\* failed_login_attempts = 0 and locked_until null, with a wrong one it
\* returns INVALID_CREDENTIALS.
C20_LockEndsLazily ==
    LoginAfterExpiry =>
        IF Matches(last.password, last.target.password_hash)
        THEN /\ last.result.success
             /\ users[last.target.user_id].failed_login_attempts = 0
             /\ users[last.target.user_id].locked_until = NullTime
        ELSE last.result = InvalidCredentialsResult

\* A login with the correct password at the very instant locked_until, on a
\* row still carrying 5 failed attempts, succeeds.
C20_Witness ==
    /\ LoginAfterExpiry
    /\ last.target.locked_until.iso = last.at
    /\ last.target.failed_login_attempts >= LockThreshold
    /\ Matches(last.password, last.target.password_hash)
    /\ last.result.success
    /\ users[last.target.user_id].locked_until = NullTime

\* The last call was a login, changePassword or resetUserPassword during
\* which a lookup or a write of the account store failed.
StoreCallFailed ==
    /\ last.kind \in {"login", "changePassword", "resetUserPassword"}
    /\ "calls" \in DOMAIN last
    /\ \E i \in 1..Len(last.calls) : ~last.calls[i].ok

\* C17: when a lookup or a write of the account store fails during login,
\* changePassword or resetUserPassword, the call returns (it does not throw)
\* a failure whose message is the fixed system-error message of the
\* operation: it is none of INVALID_CREDENTIALS, ACCOUNT_INACTIVE and
\* ACCOUNT_LOCKED and is not the text of the store's error; the failed call
\* is the last store call made (no retry) and no row has changed.
C17_StoreFailureIsSystemError ==
    StoreCallFailed =>
        /\ last.result =
              [success |-> FALSE,
               error |-> CASE last.kind = "login" -> ErrLoginSystem
                           [] last.kind = "changePassword" -> ErrChangeFailed
                           [] last.kind = "resetUserPassword" -> ErrResetFailed]
        /\ last.result.error \notin
              {ErrInvalidCredentials, ErrAccountInactive, ErrAccountLocked,
               StoreErrorText}
        /\ \A i \in 1..Len(last.calls) :
              ~last.calls[i].ok => i = Len(last.calls)
        /\ \A i, j \in 1..Len(last.calls) :
              last.calls[i].op = last.calls[j].op => i = j
        /\ users = last.before

\* The write of a login with the correct password on an active, unlocked
\* account fails after the lookup succeeded.
C17_Witness ==
    /\ StoreCallFailed
    /\ last.kind = "login"
    /\ last.target # NullUser
    /\ last.target.is_active
    /\ Matches(last.password, last.target.password_hash)
    /\ last.calls = <<StoreCall("getUserByUsername", TRUE),
                      StoreCall("updateUser", FALSE)>>
    /\ last.result.error = ErrLoginSystem
    /\ currentUser = last.session.user

\* The last call reached the audit sink and the sink failed.
AuditSinkFailed == "auditFailed" \in DOMAIN last /\ last.auditFailed

\* C18: a failure of the audit sink changes no result: login, changePassword,
\* resetUserPassword and logout return the same value and leave the same rows
\* and the same session as they do on the same input and state when the audit
\* write succeeds.
C18_AuditFailureChangesNothing ==
    AuditSinkFailed =>
        CASE last.kind = "login" ->
               LET e == LoginEffect(last.before, last.at, last.session,
                                    last.username, last.password)
               IN /\ last.result = e.result
                  /\ users = e.rows
                  /\ Session = e.session
          [] last.kind = "changePassword" ->
               LET e == ChangePasswordEffect(last.before, last.userId,
                                             last.currentPassword,
                                             last.newPassword)
               IN /\ last.result = e.result
                  /\ users = e.rows
                  /\ Session = last.session
          [] last.kind = "resetUserPassword" ->
               LET e == ResetUserPasswordEffect(last.before, last.session,
                                                last.userId,
                                                last.tempPassword)
               IN /\ last.result = e.result
                  /\ users = e.rows
                  /\ Session = last.session
          [] last.kind = "logout" ->
               /\ ~last.thrown
               /\ users = last.before
               /\ currentUser = NullUser
               /\ authToken = NullToken

\* The audit write of a successful login fails: the login still succeeds and
\* the session is stored.
C18_Witness ==
    /\ AuditSinkFailed
    /\ last.kind = "login"
    /\ last.result.success
    /\ last.audit = <<>>
    /\ currentUser # NullUser
    /\ users[last.target.user_id].failed_login_attempts = 0

\* Some row of rows other than row userId has the email.
EmailTaken(rows, userId, email) ==
    \E id \in DOMAIN rows \ {userId} : rows[id].email = email

\* C21: createUser with an email or a user_id that is already stored, and
\* updateUser of an account with an email that another account has, return a
\* failure that names the duplicate (email, user_id): they do not throw, no
\* row is created or changed and no USER_CREATE event is emitted.
C21_DuplicatesAreOutcomes ==
    /\ /\ last.kind = "createUser"
       /\ \/ last.userId \in DOMAIN last.before
          \/ EmailTaken(last.before, AbsentId, last.email)
       => /\ ~last.result.success
          /\ last.result.error \in {ErrEmailExists, ErrUserIdExists}
          /\ last.result.error = ErrEmailExists
                => EmailTaken(last.before, AbsentId, last.email)
          /\ last.result.error = ErrUserIdExists
                => last.userId \in DOMAIN last.before
          /\ users = last.before
          /\ last.audit = <<>>
    /\ /\ last.kind = "updateUser"
       /\ last.userId \in DOMAIN last.before
       /\ "email" \in DOMAIN last.updates
       /\ EmailTaken(last.before, last.userId, last.updates.email)
       => /\ last.result = [success |-> FALSE, error |-> ErrEmailExists]
          /\ users = last.before

\* createUser of a new user_id with the email of a stored account.
C21_Witness ==
    /\ last.kind = "createUser"
    /\ last.userId \notin DOMAIN last.before
    /\ EmailTaken(last.before, AbsentId, last.email)
    /\ last.result = [success |-> FALSE, error |-> ErrEmailExists]
    /\ users = last.before
    /\ SecondId \notin DOMAIN users

\* C22: a login on an active, not locked account with a wrong password
\* returns INVALID_CREDENTIALS, stores failed_login_attempts = old + 1, sets
\* locked_until = now + 15 minutes exactly when the new count is >= 5 and
\* otherwise does not write locked_until, leaves password_hash, is_active,
\* force_password_change and last_login as they were, and emits LOGIN_FAILED
\* with the account as actor.
C22_WrongPasswordEffect ==
    LoginWrongPassword =>
        LET old == last.before[last.target.user_id]
            new == users[last.target.user_id]
            count == old.failed_login_attempts + 1
        IN /\ last.result = InvalidCredentialsResult
           /\ new.failed_login_attempts = count
           /\ Len(last.writes) = 1
           /\ IF count >= 5
              THEN new.locked_until = [iso |-> last.at + 15 * 60 * 1000]
              ELSE /\ "locked_until" \notin DOMAIN last.writes[1]
                   /\ new.locked_until = old.locked_until
           /\ new.password_hash = old.password_hash
           /\ new.is_active = old.is_active
           /\ new.force_password_change = old.force_password_change
           /\ new.last_login = old.last_login
           /\ last.audit = <<[user_id |-> old.user_id,
                              action |-> "LOGIN_FAILED"]>>

\* The fifth wrong password on an account that has logged in before.
C22_Witness ==
    /\ LoginWrongPassword
    /\ last.target.failed_login_attempts = 4
    /\ last.target.last_login # NullTime
    /\ users[last.target.user_id].locked_until
          = [iso |-> last.at + 15 * 60 * 1000]

\* C23: changePassword has no lockout interaction: in every outcome it leaves
\* failed_login_attempts, locked_until, is_active and last_login of every
\* account as they were, and its outcome is decided by the existence of the
\* account and the current password alone, locked or inactive or not.
C23_ChangePasswordNoLockout ==
    ChangeCalled =>
        /\ \A id \in DOMAIN last.before :
              /\ id \in DOMAIN users
              /\ users[id].failed_login_attempts
                    = last.before[id].failed_login_attempts
              /\ users[id].locked_until = last.before[id].locked_until
              /\ users[id].is_active = last.before[id].is_active
              /\ users[id].last_login = last.before[id].last_login
        /\ last.result =
              IF last.userId \notin DOMAIN last.before
              THEN [success |-> FALSE, error |-> ErrUserNotFound]
              ELSE IF Matches(last.currentPassword,
                              last.before[last.userId].password_hash)
              THEN [success |-> TRUE]
              ELSE [success |-> FALSE, error |-> ErrCurrentPassword]

\* A changePassword with a wrong current password on a locked account: not
\* counted, the lock stays.
C23_Witness ==
    /\ ChangeCalled
    /\ last.userId \in DOMAIN last.before
    /\ LockedAt(last.before[last.userId], last.at)
    /\ ~Matches(last.currentPassword, last.before[last.userId].password_hash)
    /\ last.result.error = ErrCurrentPassword
    /\ users[last.userId].failed_login_attempts = 5

C24_AtMostFiveGuesses ==
    \A id \in DOMAIN users : guesses[id] <= 5

\* C25 as stated: while the stored locked_until of an account is in the
\* future, no login on it returns success, clears locked_until or resets
\* failed_login_attempts, in every interleaving, a login that read the row
\* before the lock was written included.  Such a login tests the row it read,
\* not the stored one.
C25_NoLoginEndsALock ==
    /\ LoginFound
    /\ LockedAt(last.before[last.target.user_id], last.at)
    => /\ ~last.result.success
       /\ users[last.target.user_id].locked_until
             = last.before[last.target.user_id].locked_until
       /\ users[last.target.user_id].failed_login_attempts # 0

\* C27 as stated: a changePassword cannot undo a reset it overlaps with: if a
\* resetUserPassword has completed on the account after the changePassword
\* read the row (the stored hash is no longer the one it read and
\* force_password_change is set), then after its write the stored hash is
\* still the reset's and force_password_change is still true.
C27_ChangeKeepsOverlappingReset ==
    /\ last.kind = "changePassword"
    /\ last.userId \in DOMAIN last.before
    /\ last.target # NullUser
    /\ last.before[last.userId].password_hash # last.target.password_hash
    /\ last.before[last.userId].force_password_change
    => /\ users[last.userId].password_hash
             = last.before[last.userId].password_hash
       /\ users[last.userId].force_password_change

\* The service holds a user and a token.
HoldsSession(user, token) == user # NullUser /\ token # NullToken

\* C28: session validity never depends on the token's expiry:
\* isAuthenticated() is true exactly when currentUser and authToken are both
\* non-null; a session restored from storage is the stored user and token
\* whatever the token's exp, and the context accepts it; and a session that
\* is authenticated stays so through every step but logout, the passing of
\* issued-at + 2 hours included.
C28_SessionIgnoresExpiry ==
    /\ isAuthenticated(Session) <=> HoldsSession(currentUser, authToken)
    /\ last.kind = "reload" =>
          /\ IF HoldsSession(last.storage.user, last.storage.token)
             THEN /\ currentUser = last.storage.user.json
                  /\ authToken = last.storage.token
             ELSE currentUser = NullUser /\ authToken = NullToken
          /\ client.state.isAuthenticated
                = HoldsSession(currentUser, authToken)
    /\ /\ "session" \in DOMAIN last
       /\ last.kind # "contextLogout"
       /\ HoldsSession(last.session.user, last.session.token)
       => HoldsSession(currentUser, authToken)

\* The page is loaded after the exp of the stored token: the session is
\* restored and authenticated.
C28_Witness ==
    /\ last.kind = "reload"
    /\ HoldsSession(currentUser, authToken)
    /\ now > authToken.b64.exp
    /\ authToken.b64.exp = authToken.b64.iat + 2 * 60 * 60 * 1000
    /\ isAuthenticated(Session)
    /\ client.state.isAuthenticated

\* C29 as stated: after every completed login or logout made through the
\* context, the context and the service agree: context.isAuthenticated equals
\* authService.isAuthenticated() and context.user is the account of
\* getCurrentUser().  A failed login while a session exists clears the
\* context and leaves the session of the service in place.
C29_ContextAgreesWithService ==
    last.kind \in {"contextLogin", "contextLogout"} =>
        /\ client.state.isAuthenticated = isAuthenticated(Session)
        /\ \/ client.state.user = NullUser /\ currentUser = NullUser
           \/ /\ client.state.user # NullUser
              /\ currentUser # NullUser
              /\ client.state.user.user_id = currentUser.user_id

\* C30 as stated: in every reachable state of the context, isAuthenticated is
\* true if and only if user and token are both non-null, and user and token
\* are null whenever it is false, for every order of the dispatches.  The
\* UPDATE_USER of a changePassword that was awaiting the service during a
\* logout sets user on the logged-out state.
C30_ContextStateConsistent ==
    /\ client.state.isAuthenticated
          <=> HoldsSession(client.state.user, client.state.token)
    /\ ~client.state.isAuthenticated
          => client.state.user = NullUser /\ client.state.token = NullToken

====
